---- MODULE Spec2Model ----
(***************************************************************************)
(* Model of the Go table test converter (khalilchatoo/claude-playground).  *)
(*                                                                         *)
(* The repository holds two versions of tabletests.go.  The first looks    *)
(* for table tests in var/const declarations (ast.GenDecl); it is called   *)
(* the "gendecl" variant here.  The second looks for them in assignment    *)
(* statements (ast.AssignStmt); it is the "assign" variant.  Both walk a   *)
(* directory, parse every .go file, run three ast.Inspect passes over the  *)
(* tree and write the file back when the modified flag is set.             *)
(*                                                                         *)
(* A syntax tree is abstracted to the nodes the passes look at: table      *)
(* declarations (with their type and rows), range statements, and the      *)
(* calls in the body of each range statement.  A file on disk is a         *)
(* sequence of lines; ParseFile and Fprint convert between the two.        *)
(***************************************************************************)
EXTENDS Integers, Sequences, FiniteSets, TLC

(***************************************************************************)
(* Bounds of the model.                                                    *)
(***************************************************************************)
MaxRows == 2
MaxCalls == 1
MaxTables == 1
MaxLoops == 1
MaxFiles == 2
MaxPasses == 2

(***************************************************************************)
(* Generic helpers.                                                        *)
(***************************************************************************)
RECURSIVE SeqsUpTo(_, _)
SeqsUpTo(S, n) ==
    IF n = 0 THEN {<<>>}
    ELSE LET shorter == SeqsUpTo(S, n - 1)
         IN  shorter \cup {Append(s, x) : s \in {t \in shorter : Len(t) = n - 1}, x \in S}

RECURSIVE Flatten(_)
Flatten(ss) ==
    IF ss = <<>> THEN <<>> ELSE Head(ss) \o Flatten(Tail(ss))

RemoveAt(s, i) ==
    [k \in 1..(Len(s) - 1) |-> IF k < i THEN s[k] ELSE s[k + 1]]

(***************************************************************************)
(* Syntax tree nodes.                                                      *)
(*                                                                         *)
(* An expression used as a row value or map key: a basic literal           *)
(* (ast.BasicLit, Kind STRING or INT) or an identifier (ast.Ident).  v is  *)
(* the lexeme: 100 and above are string literals, below are numbers.       *)
(***************************************************************************)
Lit(v) == [kind |-> IF v >= 100 THEN "STRING" ELSE "INT", v |-> v]
Ident(v) == [kind |-> "Ident", v |-> v]
NoKey == [kind |-> "none", v |-> 0]
IsBasicLit(e) == e.kind \in {"STRING", "INT"}

(* A row of a slice literal ({v1, v2, ...}) or an entry of a map literal   *)
(* (key: {v1, ...}).  Every element of a table literal is a composite      *)
(* literal in this model.                                                  *)
Row(vals) == [key |-> NoKey, elts |-> vals]
Entry(k, vals) == [key |-> k, elts |-> vals]

(* The recognized names of the name field.                                 *)
NameFieldNames == {"name", "desc", "description"}


(* A table declaration.                                                    *)
(*   decl     "assign" (tests := ... / tests = ...) or "var" (var tests)   *)
(*   scope    0 for package level, otherwise the number of the function    *)
(*   lhsIdent the left-hand side is a plain identifier (not s.tests)       *)
(*   typed    a var declaration states its type (var tests T = T{...})     *)
(*   kind     the type: "slice" []struct{..}, "array" [N]struct{..},       *)
(*            "named" []T, "map" map[string]struct{..}                     *)
(*   fields   the struct's field declarations, each the list of names it   *)
(*            declares (<<"a", "b">> for `a, b int`, <<>> for an embedded  *)
(*            field)                                                       *)
(*   rows     the elements of the literal                                  *)
Table(decl, scope, lhsIdent, typed, name, kind, fields, rows) ==
    [decl |-> decl, scope |-> scope, lhsIdent |-> lhsIdent, typed |-> typed,
     name |-> name, kind |-> kind, fields |-> fields, rows |-> rows]

(* Call argument expressions: x.sel, an identifier, or a literal.          *)
Sel(x, sel) == [kind |-> "sel", x |-> x, sel |-> sel]
Id(x) == [kind |-> "ident", x |-> x, sel |-> ""]
Str(x) == [kind |-> "lit", x |-> x, sel |-> ""]

(* A call recv.method(args...).                                            *)
Call(recv, method, args) == [recv |-> recv, method |-> method, args |-> args]

(* A range statement `for key, value tok range x { calls }` in function    *)
(* scope; key and value are "" when absent (nil).  tok is "ILLEGAL" when   *)
(* the statement has no key (go/ast RangeStmt.Tok).                        *)
Loop(scope, x, key, value, tok, calls) ==
    [scope |-> scope, x |-> x, key |-> key, value |-> value, tok |-> tok,
     calls |-> calls]

Tree(tables, loops) == [tables |-> tables, loops |-> loops]
NoNode == Tree(<<>>, <<>>)

(***************************************************************************)
(* File text: a sequence of lines.  The first line of a Go file is its     *)
(* package clause; a table or a range statement is one line each.          *)
(***************************************************************************)
Line(k, v) == [k |-> k, v |-> v]
PkgLine == Line("package", <<>>)
GarbageLine == Line("garbage", <<>>)

(* go/printer: expressions are printed as their lexeme; a literal's Kind   *)
(* is not part of the text.                                                *)
PrintExpr(e) == [lit |-> IsBasicLit(e), keyed |-> e.kind # "none", v |-> e.v]
PrintRow(r) == [key |-> PrintExpr(r.key), elts |-> [i \in 1..Len(r.elts) |-> PrintExpr(r.elts[i])]]
PrintTable(t) == [t EXCEPT !.rows = [i \in 1..Len(t.rows) |-> PrintRow(t.rows[i])]]
(* go/printer prints the range token only when the statement has a key.    *)
PrintLoop(l) == [l EXCEPT !.tok = IF l.key = "" THEN "" ELSE l.tok]
Fprint(node) ==
    <<PkgLine>>
    \o [i \in 1..Len(node.tables) |-> Line("table", PrintTable(node.tables[i]))]
    \o [i \in 1..Len(node.loops) |-> Line("loop", PrintLoop(node.loops[i]))]

(* go/parser: the scanner classifies each literal by its lexeme.           *)
ParseExpr(x) ==
    IF ~x.keyed THEN NoKey ELSE IF x.lit THEN Lit(x.v) ELSE Ident(x.v)
ParseRow(r) == [key |-> ParseExpr(r.key), elts |-> [i \in 1..Len(r.elts) |-> ParseExpr(r.elts[i])]]
ParseTable(t) == [t EXCEPT !.rows = [i \in 1..Len(t.rows) |-> ParseRow(t.rows[i])]]
ParseLoop(l) == [l EXCEPT !.tok = IF l.key = "" THEN "ILLEGAL" ELSE l.tok]

(* A text is a Go file when it starts with a package clause, every other   *)
(* line is a declaration or statement, and every range statement with a    *)
(* key has := or = before `range`.                                         *)
ParseOK(text) ==
    /\ Len(text) >= 1
    /\ text[1] = PkgLine
    /\ \A i \in 2..Len(text) :
          \/ text[i].k = "table"
          \/ /\ text[i].k = "loop"
             /\ text[i].v.key # "" => text[i].v.tok \in {"DEFINE", "ASSIGN"}

RECURSIVE SelectLines(_, _)
SelectLines(text, k) ==
    IF text = <<>> THEN <<>>
    ELSE IF Head(text).k = k THEN <<Head(text)>> \o SelectLines(Tail(text), k)
    ELSE SelectLines(Tail(text), k)

ParseFile(text) ==
    LET ts == SelectLines(text, "table")
        ls == SelectLines(text, "loop")
    IN  Tree([i \in 1..Len(ts) |-> ParseTable(ts[i].v)],
             [i \in 1..Len(ls) |-> ParseLoop(ls[i].v)])

(***************************************************************************)
(* Helpers of tabletests.go (both versions define them alike).  Indexes    *)
(* are 0-based as in the source; -1 is "not found".                        *)
(***************************************************************************)
(* findNameField: the index, in the struct's list of field declarations,   *)
(* of the first declaration whose first name is name, desc or description. *)
findNameField(fields) ==
    LET hits == {i \in 1..Len(fields) :
                    /\ Len(fields[i]) # 0
                    /\ fields[i][1] \in NameFieldNames}
    IN  IF hits = {} THEN -1
        ELSE (CHOOSE i \in hits : \A j \in hits : i <= j) - 1

(* createStructTypeWithoutField: the field list without declaration        *)
(* fieldIndex.                                                             *)
createStructTypeWithoutField(fields, fieldIndex) ==
    IF fieldIndex < 0 THEN fields ELSE RemoveAt(fields, fieldIndex + 1)

(* isBlankIdent: the expression is the identifier _ ("" is a nil Key).     *)
isBlankIdent(expr) == expr = "_"

(* One row turned into a map entry: the value at nameFieldIndex becomes    *)
(* the key and is removed from the values.                                 *)
RowToEntry(row, nameFieldIndex, key) ==
    Entry(key, RemoveAt(row.elts, nameFieldIndex + 1))

(* A row is kept only if it has a value at nameFieldIndex and that value   *)
(* is a basic literal; any other row is skipped (`continue`).              *)
RowHasLiteralAt(row, nameFieldIndex) ==
    /\ nameFieldIndex < Len(row.elts)
    /\ IsBasicLit(row.elts[nameFieldIndex + 1])

RECURSIVE KeptRows(_, _)
KeptRows(elements, nameFieldIndex) ==
    IF elements = <<>> THEN <<>>
    ELSE IF RowHasLiteralAt(Head(elements), nameFieldIndex)
         THEN <<Head(elements)>> \o KeptRows(Tail(elements), nameFieldIndex)
         ELSE KeptRows(Tail(elements), nameFieldIndex)

(* convertElementsToMapEntries (gendecl variant): the key is a new         *)
(* BasicLit of Kind STRING holding the lexeme of the row's value.          *)
convertElementsToMapEntries(elements, nameFieldIndex) ==
    IF nameFieldIndex < 0 THEN elements
    ELSE LET kept == KeptRows(elements, nameFieldIndex)
         IN  [i \in 1..Len(kept) |->
                 RowToEntry(kept[i], nameFieldIndex,
                            [kind |-> "STRING", v |-> kept[i].elts[nameFieldIndex + 1].v])]

(* The entries loop of the assign variant: the key is the row's own        *)
(* BasicLit node.                                                          *)
entries(elements, nameFieldIndex) ==
    LET kept == KeptRows(elements, nameFieldIndex)
    IN  [i \in 1..Len(kept) |->
            RowToEntry(kept[i], nameFieldIndex, kept[i].elts[nameFieldIndex + 1])]

(* lookupObject: the first package-level var/const declaration of `name`   *)
(* (its position in the tree's tables; 0 is nil).                          *)
lookupObject(file, name) ==
    LET hits == {i \in 1..Len(file.tables) :
                    /\ file.tables[i].decl = "var"
                    /\ file.tables[i].scope = 0
                    /\ file.tables[i].name = name}
    IN  IF hits = {} THEN 0 ELSE CHOOSE i \in hits : \A j \in hits : i <= j

(* isMapType: the declaration states a type and that type is a map.        *)
isMapType(file, obj) ==
    /\ obj # 0
    /\ file.tables[obj].typed
    /\ file.tables[obj].kind = "map"

(***************************************************************************)
(* The three ast.Inspect passes of processFile, per variant.               *)
(***************************************************************************)
(* Pass 1, the declarations a variant converts.                            *)
(* gendecl: a var/const spec whose stated type is a slice of structs with  *)
(* a name field.  assign: an assignment of a composite literal of such a   *)
(* type to an identifier.                                                  *)
IsTableTest(variant, t) ==
    /\ t.kind = "slice"
    /\ findNameField(t.fields) >= 0
    /\ IF variant = "gendecl"
       THEN t.decl = "var" /\ t.typed
       ELSE t.decl = "assign" /\ t.lhsIdent

(* gendecl: the map's value type is the original struct type (the struct   *)
(* without the name field is stored in the detached array type); assign:   *)
(* the value type is the struct without the name field.                    *)
ConvertTable(variant, t) ==
    LET nameFieldIndex == findNameField(t.fields)
    IN  IF variant = "gendecl"
        THEN [t EXCEPT !.kind = "map",
                       !.rows = convertElementsToMapEntries(t.rows, nameFieldIndex)]
        ELSE [t EXCEPT !.kind = "map",
                       !.fields = createStructTypeWithoutField(t.fields, nameFieldIndex),
                       !.rows = entries(t.rows, nameFieldIndex)]

ConvertedIndexes(variant, file) ==
    {i \in 1..Len(file.tables) : IsTableTest(variant, file.tables[i])}

FindTables(variant, file) ==
    [file EXCEPT !.tables = [i \in 1..Len(file.tables) |->
        IF IsTableTest(variant, file.tables[i])
        THEN ConvertTable(variant, file.tables[i])
        ELSE file.tables[i]]]

(* tableTestVars of the assign variant: the names of the converted         *)
(* variables.  The gendecl variant keeps no such set.                      *)
TableTestVarsOf(variant, file) ==
    IF variant = "gendecl" THEN {}
    ELSE {file.tables[i].name : i \in ConvertedIndexes(variant, file)}

(* Pass 2: the range statements a variant looks at ...                     *)
IsTableLoop(variant, file, vars, l) ==
    IF variant = "gendecl"
    THEN /\ isMapType(file, lookupObject(file, l.x))
         /\ ~(l.key # "" /\ l.value # "")
    ELSE l.x \in vars

(* ... the key it gives them ...                                           *)
NewKeyBlankOnly(l) ==
    IF isBlankIdent(l.key) THEN "name" ELSE l.key

NewKey(l) ==
    IF isBlankIdent(l.key) \/ l.key = "" THEN "name" ELSE l.key

(* ... and whether it sets modified for them.                              *)
LoopSetsModified(variant, l) ==
    IF variant = "gendecl" THEN TRUE
    ELSE isBlankIdent(l.key) \/ l.key = ""

UpdateLoops(variant, file, vars) ==
    [file EXCEPT !.loops = [i \in 1..Len(file.loops) |->
        IF IsTableLoop(variant, file, vars, file.loops[i])
        THEN [file.loops[i] EXCEPT !.key = NewKey(file.loops[i])]
        ELSE file.loops[i]]]

LoopsModified(variant, file, vars) ==
    \E i \in 1..Len(file.loops) :
        /\ IsTableLoop(variant, file, vars, file.loops[i])
        /\ LoopSetsModified(variant, file.loops[i])

(* Pass 3: the calls t.Run(tc.<name field>, ...) are given the argument    *)
(* `name`.  gendecl matches tc.name only.                                  *)
IsNameCall(variant, c) ==
    /\ c.recv = "t"
    /\ c.method = "Run"
    /\ Len(c.args) > 0
    /\ c.args[1].kind = "sel"
    /\ c.args[1].x = "tc"
    /\ IF variant = "gendecl" THEN c.args[1].sel = "name"
       ELSE c.args[1].sel \in NameFieldNames

UpdateCall(variant, c) ==
    IF IsNameCall(variant, c) THEN [c EXCEPT !.args[1] = Id("name")] ELSE c

UpdateCalls(variant, file) ==
    [file EXCEPT !.loops = [i \in 1..Len(file.loops) |->
        [file.loops[i] EXCEPT !.calls = [j \in 1..Len(file.loops[i].calls) |->
            UpdateCall(variant, file.loops[i].calls[j])]]]]

CallsModified(variant, file) ==
    \E i \in 1..Len(file.loops) : \E j \in 1..Len(file.loops[i].calls) :
        IsNameCall(variant, file.loops[i].calls[j])

(* `if modified { ... }`: the file is opened for writing.                  *)
WriteAlways(m) == TRUE
WriteNeeded(m) == m

(***************************************************************************)
(* The callback given to filepath.Walk returns nil after recording an      *)
(* error, so the walk goes on; the value it returns is what Walk would     *)
(* stop with.  "" is a nil error.                                          *)
(***************************************************************************)
OnAccessError(e) == ""
OnProcessErrorReturned(e) == e
OnProcessError(e) == ""

(***************************************************************************)
(* Input space.                                                            *)
(***************************************************************************)
(* Struct shapes: the name field first, last, after `a, b int`, two        *)
(* recognized names, none, no field at all, a recognized name that is not  *)
(* the first name of its declaration, an embedded field first, and a name  *)
(* field declared together with another field (`name, label string`).      *)
FieldShapes ==
    { << <<"name">>, <<"a">> >>,
      << <<"a">>, <<"desc">> >>,
      << <<"a", "b">>, <<"name">> >>,
      << <<"name">>, <<"description">> >>,
      << <<"a">> >>,
      << >>,
      << <<"a", "name">> >>,
      << <<>>, <<"name">> >>,
      << <<"name", "label">> >> }

(* The value slots of a row, one per declared name (one for an embedded    *)
(* field), and the slot of the name field: the first slot, in declaration  *)
(* order, with a recognized name (0 if there is none).                     *)
FieldSlots(fields) ==
    Flatten([i \in 1..Len(fields) |-> IF Len(fields[i]) = 0 THEN <<"">> ELSE fields[i]])

NameSlot(fields) ==
    LET slots == FieldSlots(fields)
        hits == {p \in 1..Len(slots) : slots[p] \in NameFieldNames}
    IN  IF hits = {} THEN 0 ELSE CHOOSE p \in hits : \A q \in hits : p <= q

(* Row r of a table: all values literal ("lit"), the name an identifier    *)
(* ("nonlit"), or the empty literal {} ("short").  Names are the strings   *)
(* 100+r, other values the numbers 10r+p.                                  *)
RowKinds == {"lit", "nonlit", "short"}

MkRow(fields, r, kind) ==
    IF kind = "short" THEN Row(<<>>)
    ELSE Row([p \in 1..Len(FieldSlots(fields)) |->
                IF p = NameSlot(fields)
                THEN IF kind = "nonlit" THEN Ident(100 + r) ELSE Lit(100 + r)
                ELSE Lit(10 * r + p)])

RowsOf(fields) ==
    {[r \in 1..Len(ks) |-> MkRow(fields, r, ks[r])] : ks \in SeqsUpTo(RowKinds, MaxRows)}

DeclForms ==
    { [decl |-> "assign", scope |-> 1, typed |-> FALSE],
      [decl |-> "var", scope |-> 0, typed |-> TRUE],
      [decl |-> "var", scope |-> 1, typed |-> TRUE] }

BaseFields == << <<"name">>, <<"a">> >>
BaseRows == << MkRow(BaseFields, 1, "lit") >>
MapFields == << <<"a">> >>
MapRows == << Entry(Lit(101), <<Lit(12)>>) >>

(* Tables: every slice-of-struct table, and the base table with another    *)
(* type, with a left-hand side that is no identifier, and as a var         *)
(* declaration that states no type.                                        *)
SliceTables ==
    UNION {{Table(d.decl, d.scope, TRUE, d.typed, "tests", "slice", f, rows) :
                d \in DeclForms, rows \in RowsOf(f)} : f \in FieldShapes}

OtherTables ==
    {Table(d.decl, d.scope, TRUE, d.typed, "tests", "array", BaseFields, BaseRows) : d \in DeclForms}
    \cup {Table(d.decl, d.scope, TRUE, d.typed, "tests", "named", <<>>, BaseRows) : d \in DeclForms}
    \cup {Table(d.decl, d.scope, TRUE, d.typed, "tests", "map", MapFields, MapRows) : d \in DeclForms}
    \cup {Table("assign", 1, FALSE, FALSE, "tests", "slice", BaseFields, BaseRows),
          Table("var", 0, TRUE, FALSE, "tests", "slice", BaseFields, BaseRows)}

(* Loops: in the function of the table or in another one, over `tests` or  *)
(* over another variable, with every binding form, and with calls in the   *)
(* body.                                                                   *)
LoopTargets == {<<1, "tests">>, <<2, "tests">>, <<1, "items">>}

LoopBindings ==
    {<<"", "">>, <<"_", "">>, <<"i", "">>, <<"_", "tc">>, <<"i", "tc">>,
     <<"name", "tc">>, <<"_", "tt">>}

CallShapes ==
    { Call("t", "Run", <<Sel("tc", "name")>>),
      Call("t", "Run", <<Sel("tc", "desc")>>),
      Call("t", "Run", <<Sel("tc", "description")>>),
      Call("t", "Run", <<Sel("tt", "name")>>),
      Call("t", "Run", <<Sel("tc", "a")>>),
      Call("t", "Run", <<Id("name")>>),
      Call("t", "Errorf", <<Str("%s"), Sel("tc", "desc")>>),
      Call("s", "Run", <<Sel("tc", "name")>>) }

(* `for range x` has no token, `for _ = range x` has =, the others :=.     *)
MkLoop(target, binding, calls) ==
    Loop(target[1], target[2], binding[1], binding[2],
         IF binding[1] = "" THEN "ILLEGAL"
         ELSE IF binding = <<"_", "">> THEN "ASSIGN" ELSE "DEFINE",
         calls)

Loops ==
    {MkLoop(tg, b, cs) : tg \in LoopTargets, b \in LoopBindings,
                         cs \in SeqsUpTo(CallShapes, MaxCalls)}

BaseLoop == MkLoop(<<1, "tests">>, <<"_", "tc">>, <<Call("t", "Run", <<Sel("tc", "name")>>)>>)

BaseTables ==
    { Table("assign", 1, TRUE, FALSE, "tests", "slice", BaseFields, BaseRows),
      Table("var", 0, TRUE, TRUE, "tests", "slice", BaseFields, BaseRows),
      Table("var", 0, TRUE, TRUE, "tests", "map", MapFields, MapRows),
      Table("assign", 1, TRUE, FALSE, "tests", "named", <<>>, BaseRows) }

(* Files with several tables and loops are built from these.               *)
SimpleTables ==
    { Table("assign", 1, TRUE, FALSE, "tests", "slice", BaseFields, BaseRows),
      Table("var", 0, TRUE, TRUE, "cases", "slice", BaseFields, BaseRows),
      Table("assign", 2, TRUE, FALSE, "tests", "slice", BaseFields,
            << MkRow(BaseFields, 1, "nonlit") >>) }

SimpleLoops ==
    { BaseLoop,
      MkLoop(<<2, "tests">>, <<"i", "tc">>, <<Call("t", "Run", <<Sel("tc", "name")>>)>>),
      Loop(1, "cases", "_", "tc", "DEFINE",
           <<Call("t", "Errorf", <<Str("%s"), Sel("tc", "desc")>>)>>) }

(* The trees of the input files: one table of any form with the base loop; *)
(* a base table (or none) with one loop of any form; several simple tables *)
(* and loops.                                                              *)
FileSpace ==
    {Tree(<<t>>, <<BaseLoop>>) : t \in SliceTables \cup OtherTables}
    \cup {Tree(ts, <<l>>) : ts \in SeqsUpTo(BaseTables, 1), l \in Loops}
    \cup {Tree(ts, ls) : ts \in SeqsUpTo(SimpleTables, MaxTables),
                         ls \in SeqsUpTo(SimpleLoops, MaxLoops)}

(* Directory entries for batches: Go files that convert, that fail to be   *)
(* created or written, that do not parse, that hold no table; a directory, *)
(* a file that is no Go file, and a path that cannot be accessed.          *)
DirEntry(kind, accessErr, fault, text) ==
    [kind |-> kind, accessErr |-> accessErr, fault |-> fault, text |-> text]

BatchFile ==
    Tree(<< Table("assign", 1, TRUE, FALSE, "tests", "slice", BaseFields, BaseRows),
            Table("var", 0, TRUE, TRUE, "cases", "slice", BaseFields, BaseRows) >>,
         << BaseLoop >>)

NoTableFile ==
    Tree(<<>>, << MkLoop(<<1, "items">>, <<"i", "tc">>,
                         <<Call("t", "Errorf", <<Str("%s"), Sel("tc", "desc")>>)>>) >>)

BatchEntries ==
    { DirEntry("go", FALSE, "none", Fprint(BatchFile)),
      DirEntry("go", FALSE, "create", Fprint(BatchFile)),
      DirEntry("go", FALSE, "fprint", Fprint(BatchFile)),
      DirEntry("go", FALSE, "none", <<PkgLine, GarbageLine>>),
      DirEntry("go", FALSE, "none", Fprint(NoTableFile)),
      DirEntry("dir", FALSE, "none", <<>>),
      DirEntry("other", FALSE, "none", <<PkgLine>>),
      DirEntry("go", TRUE, "none", <<PkgLine>>) }

(***************************************************************************)
(* State.                                                                  *)
(*   variant          which tabletests.go runs                             *)
(*   rootOK, dir      the directory given to main: whether it can be       *)
(*                    read, and its entries in walk order (with the text   *)
(*                    each file had at the start)                          *)
(*   disk             the text of each entry now                           *)
(*   pass             the number of the run of the tool                    *)
(*   pc, idx          the position of the run; the entry being visited     *)
(*   node, modified, tablesConverted, tableTestVars                        *)
(*                    locals of processFile                                *)
(*   fileErr, fileResult   what processFile returns                        *)
(*   walkErr          what the walk callback returned last                 *)
(*   result, retErr   what ConvertTableTests returns                       *)
(*   exitCode         exit status of main (-1 while running)               *)
(*   passStart, okPrev, trace   history: the disk when the run began, the  *)
(*                    entries the previous run processed without error,    *)
(*                    and the steps of processFile taken in this run       *)
(***************************************************************************)
VARIABLES variant, rootOK, dir, disk, pass, pc, idx, node, modified,
          tablesConverted, tableTestVars, fileErr, fileResult, walkErr,
          result, retErr, exitCode, passStart, okPrev, trace

vars == <<variant, rootOK, dir, disk, pass, pc, idx, node, modified,
          tablesConverted, tableTestVars, fileErr, fileResult, walkErr,
          result, retErr, exitCode, passStart, okPrev, trace>>

env == <<variant, rootOK, dir>>
fileLocals == <<node, modified, tablesConverted, tableTestVars>>
history == <<passStart, okPrev>>

NoResult == [FilesProcessed |-> 0, FilesModified |-> 0, TablesConverted |-> 0,
             Errors |-> <<>>]
NoFileResult == [Modified |-> FALSE, TablesConverted |-> 0]

Step(op) == [op |-> op, path |-> idx]

(* A run of the tool starts in main with nothing done.                     *)
Fresh ==
    /\ pc = "main"
    /\ idx = 0
    /\ node = NoNode
    /\ modified = FALSE
    /\ tablesConverted = 0
    /\ tableTestVars = {}
    /\ fileErr = ""
    /\ fileResult = NoFileResult
    /\ walkErr = ""
    /\ result = NoResult
    /\ retErr = ""
    /\ exitCode = -1
    /\ trace = <<>>

(* Either one Go file of the file space, or a batch of directory entries,  *)
(* or a root that cannot be read.                                          *)
Dirs ==
    {<<DirEntry("go", FALSE, "none", Fprint(f))>> : f \in FileSpace}
    \cup SeqsUpTo(BatchEntries, MaxFiles)

Init ==
    /\ variant \in {"gendecl", "assign"}
    /\ \E ok \in BOOLEAN, d \in Dirs :
          /\ ok \/ d = <<>>
          /\ rootOK = ok
          /\ dir = d
          /\ disk = [i \in 1..Len(d) |-> d[i].text]
          /\ passStart = [i \in 1..Len(d) |-> d[i].text]
    /\ pass = 1
    /\ okPrev = {}
    /\ Fresh

(***************************************************************************)
(* main and ConvertTableTests.                                             *)
(***************************************************************************)
CurEntry == dir[idx]

(* Reading the history: processFile took step op on entry i in this run;   *)
(* the number of entries of result.Errors that name entry i.               *)
Took(op, i) == \E k \in 1..Len(trace) : trace[k] = [op |-> op, path |-> i]
ErrorsFor(i) == Cardinality({k \in 1..Len(result.Errors) : result.Errors[k].path = i})

(* ConvertTableTests calls filepath.Walk, which first stats the root.  If  *)
(* that fails Walk calls the callback once, with the error, and returns    *)
(* what the callback returns; otherwise the entries are visited in order.  *)
WalkStart ==
    /\ pc = "main"
    /\ IF rootOK
       THEN /\ pc' = "walk"
            /\ idx' = 1
            /\ UNCHANGED <<result, walkErr>>
       ELSE /\ pc' = "walked"
            /\ idx' = 0
            /\ result' = [result EXCEPT !.Errors = Append(@, [kind |-> "access", path |-> 0])]
            /\ walkErr' = OnAccessError("lstat")
    /\ UNCHANGED <<env, disk, pass, fileLocals, fileErr, fileResult, retErr,
                   exitCode, history, trace>>

(* The callback, up to the call of processFile: an entry that cannot be    *)
(* accessed is recorded; directories and files without the .go suffix are  *)
(* skipped.                                                                *)
WalkFn ==
    /\ pc = "walk"
    /\ idx <= Len(dir)
    /\ IF CurEntry.accessErr
       THEN /\ result' = [result EXCEPT !.Errors = Append(@, [kind |-> "access", path |-> idx])]
            /\ walkErr' = OnAccessError("access")
            /\ idx' = idx + 1
            /\ pc' = IF walkErr' = "" THEN "walk" ELSE "walked"
       ELSE IF CurEntry.kind # "go"
       THEN /\ idx' = idx + 1
            /\ UNCHANGED <<result, walkErr, pc>>
       ELSE /\ pc' = "parse"
            /\ UNCHANGED <<result, walkErr, idx>>
    /\ UNCHANGED <<env, disk, pass, fileLocals, fileErr, fileResult, retErr,
                   exitCode, history, trace>>

(***************************************************************************)
(* processFile, one step per phase.                                        *)
(***************************************************************************)
(* parser.ParseFile: on an error processFile returns at once.              *)
Parse ==
    /\ pc = "parse"
    /\ trace' = Append(trace, Step("parse"))
    /\ IF ParseOK(disk[idx])
       THEN /\ node' = ParseFile(disk[idx])
            /\ pc' = "tables"
            /\ UNCHANGED fileErr
       ELSE /\ fileErr' = "parse"
            /\ pc' = "return"
            /\ UNCHANGED node
    /\ modified' = FALSE
    /\ tablesConverted' = 0
    /\ tableTestVars' = {}
    /\ fileResult' = NoFileResult
    /\ UNCHANGED <<env, disk, pass, idx, walkErr, result, retErr, exitCode, history>>

(* A single traversal that converts the declarations and rewrites the      *)
(* t.Run calls it meets (not what processFile does).                       *)
TablesAndCalls ==
    /\ pc = "tables"
    /\ node' = UpdateCalls(variant, FindTables(variant, node))
    /\ tableTestVars' = TableTestVarsOf(variant, node)
    /\ tablesConverted' = tablesConverted + Cardinality(ConvertedIndexes(variant, node))
    /\ modified' = (modified \/ ConvertedIndexes(variant, node) # {}
                             \/ CallsModified(variant, node))
    /\ trace' = Append(trace, Step("tables"))
    /\ pc' = "loops"
    /\ UNCHANGED <<env, disk, pass, idx, fileErr, fileResult, walkErr, result,
                   retErr, exitCode, history>>

(* First ast.Inspect: find and convert the table declarations.             *)
Tables ==
    /\ pc = "tables"
    /\ node' = FindTables(variant, node)
    /\ tableTestVars' = TableTestVarsOf(variant, node)
    /\ tablesConverted' = tablesConverted + Cardinality(ConvertedIndexes(variant, node))
    /\ modified' = (modified \/ ConvertedIndexes(variant, node) # {})
    /\ trace' = Append(trace, Step("tables"))
    /\ pc' = "loops"
    /\ UNCHANGED <<env, disk, pass, idx, fileErr, fileResult, walkErr, result,
                   retErr, exitCode, history>>

(* Second ast.Inspect: update the range statements.                        *)
RangeLoops ==
    /\ pc = "loops"
    /\ node' = UpdateLoops(variant, node, tableTestVars)
    /\ modified' = (modified \/ LoopsModified(variant, node, tableTestVars))
    /\ trace' = Append(trace, Step("loops"))
    /\ pc' = "calls"
    /\ UNCHANGED <<env, disk, pass, idx, tablesConverted, tableTestVars, fileErr,
                   fileResult, walkErr, result, retErr, exitCode, history>>

(* Third ast.Inspect: update the t.Run calls.                              *)
RunCalls ==
    /\ pc = "calls"
    /\ node' = UpdateCalls(variant, node)
    /\ modified' = (modified \/ CallsModified(variant, node))
    /\ trace' = Append(trace, Step("calls"))
    /\ pc' = "create"
    /\ UNCHANGED <<env, disk, pass, idx, tablesConverted, tableTestVars, fileErr,
                   fileResult, walkErr, result, retErr, exitCode, history>>

(* `if modified { f, err := os.Create(filePath) ...`: os.Create truncates  *)
(* the file when it can open it.  Unmodified, processFile returns the zero *)
(* FileResult.                                                             *)
Create ==
    /\ pc = "create"
    /\ IF ~WriteNeeded(modified)
       THEN /\ pc' = "return"
            /\ UNCHANGED <<disk, fileErr, trace>>
       ELSE /\ trace' = Append(trace, Step("create"))
            /\ IF CurEntry.fault = "create"
               THEN /\ fileErr' = "create"
                    /\ pc' = "return"
                    /\ UNCHANGED disk
               ELSE /\ disk' = [disk EXCEPT ![idx] = <<>>]
                    /\ pc' = "fprint"
                    /\ UNCHANGED fileErr
    /\ UNCHANGED <<env, pass, idx, fileLocals, fileResult, walkErr, result,
                   retErr, exitCode, history>>

(* printer.Fprint(f, fset, node) writes the text to the open file; when    *)
(* it fails, some part of the text, possibly none, has been written.       *)
WriteFile ==
    /\ pc = "fprint"
    /\ trace' = Append(trace, Step("fprint"))
    /\ IF CurEntry.fault = "fprint"
       THEN /\ \E n \in 0..(Len(Fprint(node)) - 1) :
                 disk' = [disk EXCEPT ![idx] = SubSeq(Fprint(node), 1, n)]
            /\ fileErr' = "write"
            /\ UNCHANGED fileResult
       ELSE /\ disk' = [disk EXCEPT ![idx] = Fprint(node)]
            /\ fileResult' = [Modified |-> TRUE, TablesConverted |-> tablesConverted]
            /\ UNCHANGED fileErr
    /\ pc' = "return"
    /\ UNCHANGED <<env, pass, idx, fileLocals, walkErr, result, retErr, exitCode,
                   history>>

(* The callback after processFile returned: an error is recorded and the   *)
(* walk goes on; otherwise the counters are updated.                       *)
WalkFnReturn ==
    /\ pc = "return"
    /\ IF fileErr # ""
       THEN /\ result' = [result EXCEPT !.Errors =
                    Append(@, [kind |-> "process", path |-> idx])]
            /\ walkErr' = OnProcessError(fileErr)
       ELSE /\ result' = [result EXCEPT
                    !.FilesProcessed = @ + 1,
                    !.FilesModified = IF fileResult.Modified THEN @ + 1 ELSE @,
                    !.TablesConverted = IF fileResult.Modified
                                        THEN @ + fileResult.TablesConverted ELSE @]
            /\ walkErr' = ""
    /\ idx' = idx + 1
    /\ pc' = IF walkErr' = "" THEN "walk" ELSE "walked"
    /\ node' = NoNode
    /\ modified' = FALSE
    /\ tablesConverted' = 0
    /\ tableTestVars' = {}
    /\ fileErr' = ""
    /\ fileResult' = NoFileResult
    /\ UNCHANGED <<env, disk, pass, retErr, exitCode, history, trace>>

(* filepath.Walk has visited every entry.                                  *)
WalkEnd ==
    /\ pc = "walk"
    /\ idx > Len(dir)
    /\ pc' = "walked"
    /\ UNCHANGED <<env, disk, pass, idx, fileLocals, fileErr, fileResult, walkErr,
                   result, retErr, exitCode, history, trace>>

(* ConvertTableTests returns the walk's error, wrapped, and main exits     *)
(* with status 1 on an error, 0 otherwise.                                 *)
Exit ==
    /\ pc = "walked"
    /\ retErr' = IF walkErr # "" THEN "error walking directory" ELSE ""
    /\ exitCode' = IF retErr' # "" THEN 1 ELSE 0
    /\ pc' = "exit"
    /\ UNCHANGED <<env, disk, pass, idx, fileLocals, fileErr, fileResult, walkErr,
                   result, history, trace>>

(* The tool is run again on the same directory.                            *)
Rerun ==
    /\ pc = "exit"
    /\ pass < MaxPasses
    /\ pass' = pass + 1
    /\ passStart' = disk
    /\ pc' = "main"
    /\ idx' = 0
    /\ node' = NoNode
    /\ modified' = FALSE
    /\ tablesConverted' = 0
    /\ tableTestVars' = {}
    /\ fileErr' = ""
    /\ fileResult' = NoFileResult
    /\ walkErr' = ""
    /\ result' = NoResult
    /\ retErr' = ""
    /\ exitCode' = -1
    /\ trace' = <<>>
    /\ okPrev' = {i \in 1..Len(dir) : Took("parse", i) /\ ErrorsFor(i) = 0}
    /\ UNCHANGED <<env, disk>>

Next ==
    \/ WalkStart
    \/ WalkFn
    \/ Parse
    \/ Tables
    \/ RangeLoops
    \/ RunCalls
    \/ Create
    \/ WriteFile
    \/ WalkFnReturn
    \/ WalkEnd
    \/ Exit
    \/ Rerun

Spec == Init /\ [][Next]_vars

(***************************************************************************)
(* Properties.  Each is stated for the file processFile is working on      *)
(* (entry idx), comparing the tree it holds (node) with the tree it        *)
(* parsed (Orig) and the disk with the disk at the start of the run.       *)
(***************************************************************************)
(* processFile has parsed the current file; it has run its first pass; it  *)
(* has run all three passes.                                               *)
Parsed == pc \in {"tables", "loops", "calls", "create", "fprint"} \/ (pc = "return" /\ fileErr # "parse")
TablesDone == Parsed /\ pc # "tables"
PassesDone == Parsed /\ pc \notin {"tables", "loops", "calls"}

(* The tree of the current file as it was parsed in this run.              *)
Orig == ParseFile(passStart[idx])

(* The tables this run converts in the current file.                       *)
Converted == ConvertedIndexes(variant, Orig)

(* The value of the name field in a row (NoKey if the row has none).       *)
NameValue(t, r) ==
    IF NameSlot(t.fields) \in 1..Len(t.rows[r].elts)
    THEN t.rows[r].elts[NameSlot(t.fields)] ELSE NoKey

HasNonLiteralName(t) ==
    \E r \in 1..Len(t.rows) : NameValue(t, r).kind = "Ident"

AllNamesLiteral(t) ==
    \A r \in 1..Len(t.rows) : IsBasicLit(NameValue(t, r))

(* Go's scoping: the tables that declare or assign the variable a range    *)
(* statement iterates: those of that name in the statement's function, or  *)
(* else those of that name at package level.                               *)
Referent(file, l) ==
    LET named(sc) == {i \in 1..Len(file.tables) :
                        /\ file.tables[i].lhsIdent
                        /\ file.tables[i].name = l.x
                        /\ file.tables[i].scope = sc}
    IN  IF named(l.scope) # {} THEN named(l.scope) ELSE named(0)

IteratesConverted(l) == Referent(Orig, l) \cap Converted # {}

(* C1: a slice-of-struct table with a recognized name field and a row      *)
(* whose name is not a literal is left as it was, and is not counted in    *)
(* tablesConverted.                                                        *)
C1_NonLiteralGuard ==
    TablesDone =>
        LET guarded == {i \in 1..Len(Orig.tables) :
                           /\ Orig.tables[i].kind = "slice"
                           /\ NameSlot(Orig.tables[i].fields) # 0
                           /\ HasNonLiteralName(Orig.tables[i])}
        IN  /\ \A i \in guarded : node.tables[i] = Orig.tables[i]
            /\ tablesConverted <= Len(Orig.tables) - Cardinality(guarded)

(* C2: when creating or writing the file fails, the file on disk is what   *)
(* it was before the conversion.                                           *)
C2_WriteFailureAtomic ==
    (pc = "return" /\ fileErr \in {"create", "write"}) => disk[idx] = passStart[idx]

(* C3: a range statement or a call in its body is changed only if the      *)
(* statement iterates a table that was converted in this file.             *)
C3_CorrelateByIdentity ==
    PassesDone =>
        \A i \in 1..Len(Orig.loops) :
            node.loops[i] # Orig.loops[i] => IteratesConverted(Orig.loops[i])

(* C4: a file without a slice-of-struct table is not changed and not       *)
(* written.                                                                *)
C4_Selectivity ==
    (PassesDone /\ \A i \in 1..Len(Orig.tables) : Orig.tables[i].kind # "slice") =>
        /\ node = Orig
        /\ ~modified
        /\ ~Took("create", idx)
        /\ disk[idx] = passStart[idx]

(* C5: in the body of a loop over a converted table no call argument       *)
(* accesses the name field on the loop's row variable any more.            *)
C5_ConsumerConsistency ==
    PassesDone =>
        \A i \in 1..Len(node.loops) :
            IteratesConverted(Orig.loops[i]) =>
                \A j \in 1..Len(node.loops[i].calls) :
                    \A a \in 1..Len(node.loops[i].calls[j].args) :
                        LET arg == node.loops[i].calls[j].args[a]
                        IN  ~(/\ arg.kind = "sel"
                              /\ arg.x = node.loops[i].value
                              /\ arg.sel \in NameFieldNames)

(* C6: a converted table whose names are all literal has one entry per     *)
(* row, in row order, keyed by the row's name, holding the row's other     *)
(* values in order.                                                        *)
C6_KeyFidelity ==
    TablesDone =>
        \A i \in Converted :
            LET old == Orig.tables[i]
                new == node.tables[i]
            IN  AllNamesLiteral(old) =>
                    /\ Len(new.rows) = Len(old.rows)
                    /\ \A r \in 1..Len(old.rows) :
                          /\ new.rows[r].key.v = NameValue(old, r).v
                          /\ new.rows[r].elts = RemoveAt(old.rows[r].elts, NameSlot(old.fields))

(* C7: in the assign variant, a file that the previous run processed       *)
(* without error is not modified and not written by this run, and stays    *)
(* as it was when this run began.                                          *)
C7_Idempotent ==
    (/\ variant = "assign"
     /\ pass > 1
     /\ idx \in okPrev
     /\ pc \in {"tables", "loops", "calls", "create", "fprint", "return"}) =>
        /\ ~modified
        /\ ~fileResult.Modified
        /\ ~Took("create", idx)
        /\ disk[idx] = passStart[idx]

(* The second run has gone through a file that the first run converted: a  *)
(* map table, `for name, tc := range tests` and t.Run(name).               *)
C7_Witness ==
    /\ variant = "assign"
    /\ pass = 2
    /\ pc = "return"
    /\ fileErr = ""
    /\ idx \in okPrev
    /\ disk[idx] # dir[idx].text
    /\ \E i \in 1..Len(node.tables) : node.tables[i].kind = "map"
    /\ \E i \in 1..Len(node.loops) :
          /\ node.loops[i].key = "name"
          /\ node.loops[i].value = "tc"
          /\ \E j \in 1..Len(node.loops[i].calls) :
                node.loops[i].calls[j] = Call("t", "Run", <<Id("name")>>)

(* C8: when the root cannot be read ConvertTableTests returns an error and *)
(* main exits with a non-zero status; otherwise the returned error is nil. *)
C8_RootFailureFatal ==
    pc = "exit" =>
        /\ ~rootOK => (retErr # "" /\ exitCode # 0)
        /\ rootOK => retErr = ""

(* C9: when the walk has ended, every accessible Go file has been parsed   *)
(* once; a file whose parse or write failed has exactly one entry in       *)
(* Errors; a file whose parse failed was not transformed or written; and   *)
(* no error was returned.  No file ever has two entries.                   *)
GoFiles == {i \in 1..Len(dir) : dir[i].kind = "go" /\ ~dir[i].accessErr}
ParseFails(i) == ~ParseOK(passStart[i])
WriteFails(i) == Took("create", i) /\ dir[i].fault # "none"
Count(op, i) == Cardinality({k \in 1..Len(trace) : trace[k] = [op |-> op, path |-> i]})

C9_PerFileErrorsNonFatal ==
    /\ \A i \in 1..Len(dir) : ErrorsFor(i) <= 1
    /\ (rootOK /\ pc \in {"walked", "exit"}) =>
          /\ walkErr = "" /\ retErr = ""
          /\ \A i \in GoFiles :
                /\ Count("parse", i) = 1
                /\ (ParseFails(i) \/ WriteFails(i)) => ErrorsFor(i) = 1
                /\ ParseFails(i) =>
                      /\ \A op \in {"tables", "loops", "calls", "create", "fprint"} : ~Took(op, i)
                      /\ disk[i] = passStart[i]
          /\ result.FilesProcessed + Len(result.Errors)
                = Cardinality({i \in 1..Len(dir) : dir[i].kind = "go" \/ dir[i].accessErr})

(* A batch has ended in which a file failed to parse or to be written and  *)
(* a later file was converted and written.                                 *)
C9_Witness ==
    /\ pc = "exit"
    /\ \E i \in GoFiles : \E j \in GoFiles :
          /\ i < j
          /\ ParseFails(i) \/ WriteFails(i)
          /\ ErrorsFor(i) = 1
          /\ Took("fprint", j)
          /\ ErrorsFor(j) = 0
          /\ result.FilesModified >= 1

(* C10: the modified flag is set, the file is opened for writing and the   *)
(* file counts as modified exactly when a pass changed the tree.           *)
C10_WriteOnlyOnRealChange ==
    /\ PassesDone => (modified <=> node # Orig)
    /\ (pc = "return" /\ fileErr = "") =>
          /\ Took("create", idx) <=> node # Orig
          /\ fileResult.Modified <=> node # Orig

(* C11: a converted table has the type map[string]R' where R' is the       *)
(* original struct without its first field named name, desc or             *)
(* description, every other field kept in order.                           *)
C11_TypeRewrite ==
    TablesDone =>
        \A i \in Converted :
            LET old == Orig.tables[i]
                new == node.tables[i]
            IN  /\ new.kind = "map"
                /\ FieldSlots(new.fields)
                      = RemoveAt(FieldSlots(old.fields), NameSlot(old.fields))

(* C12: when processFile returns for a file that parsed and holds no       *)
(* slice-of-struct table with a recognized name field, the callback adds   *)
(* one to FilesProcessed and leaves FilesModified and TablesConverted as   *)
(* they were.                                                              *)
NoApplicableTable ==
    \A i \in 1..Len(Orig.tables) :
        ~(Orig.tables[i].kind = "slice" /\ NameSlot(Orig.tables[i].fields) # 0)

C12_NoTableCounters ==
    [][(pc = "return" /\ fileErr # "parse" /\ NoApplicableTable) =>
            /\ result'.FilesProcessed = result.FilesProcessed + 1
            /\ result'.FilesModified = result.FilesModified
            /\ result'.TablesConverted = result.TablesConverted]_vars

(* C13: in a loop over a converted table, a call t.Run whose first         *)
(* argument accessed a name field on the loop's row variable now has the   *)
(* loop's key as its first argument; and no call of such a loop is given   *)
(* the argument `name` unless the loop's key is `name`.                    *)
IsRowNameCall(l, c) ==
    /\ c.recv = "t"
    /\ c.method = "Run"
    /\ Len(c.args) > 0
    /\ c.args[1].kind = "sel"
    /\ l.value # ""
    /\ c.args[1].x = l.value
    /\ c.args[1].sel \in NameFieldNames

C13_CallTargetsLoopKey ==
    PassesDone =>
        \A i \in 1..Len(Orig.loops) : \A j \in 1..Len(Orig.loops[i].calls) :
            LET old == Orig.loops[i].calls[j]
                new == node.loops[i].calls[j]
                key == node.loops[i].key
            IN  IteratesConverted(Orig.loops[i]) =>
                    /\ IsRowNameCall(Orig.loops[i], old) =>
                            /\ key \notin {"", "_"}
                            /\ new.args[1] = Id(key)
                    /\ (new # old /\ new.args[1] = Id("name")) => key = "name"

(* C14: in the assign variant, a range statement over an identifier that   *)
(* names a converted table gets the key `name` when it had no key or the   *)
(* key _, and keeps any other key; no range statement's value or iterated  *)
(* expression changes.  `for _, tc := range tests` with                    *)
(* t.Run(tc.name|desc|description, ...) ends as `for name, tc := range     *)
(* tests` with t.Run(name, ...), in the tree and in the written file.      *)
LoopsDone == Parsed /\ pc \notin {"tables", "loops"}

NamesConverted(l) == \E i \in Converted : Orig.tables[i].name = l.x

C14_RangeRewrite ==
    (variant = "assign" /\ LoopsDone) =>
        \A i \in 1..Len(Orig.loops) :
            LET old == Orig.loops[i]
                new == node.loops[i]
            IN  /\ new.value = old.value
                /\ new.x = old.x
                /\ NamesConverted(old) =>
                      IF old.key \in {"", "_"}
                      THEN new.key = "name"
                      ELSE new.key = old.key /\ new.tok = old.tok
                /\ (PassesDone /\ NamesConverted(old) /\ old.key = "_" /\ old.value = "tc") =>
                      /\ new.key = "name" /\ new.tok = old.tok
                      /\ \A j \in 1..Len(old.calls) :
                            IsRowNameCall(old, old.calls[j]) =>
                                new.calls[j] = [old.calls[j] EXCEPT !.args[1] = Id("name")]
                      /\ (pc = "return" /\ fileErr = "") =>
                            ParseFile(disk[idx]).loops[i] = new

(* processFile has written `for name, tc := range tests` with t.Run(name)  *)
(* for a file that had `for _, tc := range tests` with t.Run(tc.desc).     *)
C14_Witness ==
    /\ variant = "assign"
    /\ pc = "return"
    /\ fileErr = ""
    /\ Took("fprint", idx)
    /\ \E i \in 1..Len(Orig.loops) :
          /\ NamesConverted(Orig.loops[i])
          /\ Orig.loops[i].key = "_"
          /\ Orig.loops[i].value = "tc"
          /\ Orig.loops[i].calls = <<Call("t", "Run", <<Sel("tc", "desc")>>)>>
          /\ ParseFile(disk[idx]).loops[i] =
                [Orig.loops[i] EXCEPT !.key = "name",
                                      !.calls = <<Call("t", "Run", <<Id("name")>>)>>]

(* C15: processFile takes its steps in the order parse, tables, loops,     *)
(* calls, create, write, each right after the one before it on the same    *)
(* file, and a file is parsed only after the steps of the files before     *)
(* it.  While the tables are not all converted no range statement or call  *)
(* has changed; until the range statements are done no call has changed;   *)
(* until the three passes are done the file on disk has not changed.       *)
ProcessOrder == <<"parse", "tables", "loops", "calls", "create", "fprint">>

Pos(op) == CHOOSE p \in 1..Len(ProcessOrder) : ProcessOrder[p] = op

C15_PassOrder ==
    /\ \A k \in 1..Len(trace) :
          IF trace[k].op = "parse"
          THEN k > 1 => trace[k - 1].path < trace[k].path
          ELSE /\ k > 1
               /\ trace[k - 1] = [op |-> ProcessOrder[Pos(trace[k].op) - 1],
                                  path |-> trace[k].path]
    /\ pc \in {"tables", "loops"} =>
          /\ node.loops = Orig.loops
          /\ pc = "loops" => \A i \in Converted : node.tables[i].kind = "map"
    /\ pc = "calls" =>
          \A i \in 1..Len(Orig.loops) : node.loops[i].calls = Orig.loops[i].calls
    /\ pc \in {"tables", "loops", "calls", "create"} =>
          /\ disk[idx] = passStart[idx]
          /\ ~Took("create", idx)

(* A run has ended in which two files were converted and written, and in   *)
(* the first of them a table, a range statement and a call were rewritten. *)
C15_Witness ==
    /\ pc = "exit"
    /\ \E i \in GoFiles : \E j \in GoFiles :
          /\ i < j
          /\ Took("fprint", i)
          /\ Took("fprint", j)
          /\ ErrorsFor(i) = 0
          /\ ErrorsFor(j) = 0
          /\ LET before == ParseFile(passStart[i])
                 after == ParseFile(disk[i])
             IN  /\ \E t \in 1..Len(before.tables) :
                       before.tables[t].kind = "slice" /\ after.tables[t].kind = "map"
                 /\ \E l \in 1..Len(before.loops) :
                       /\ before.loops[l].key # after.loops[l].key
                       /\ before.loops[l].calls # after.loops[l].calls

====
